---- MODULE Spec2Model ----
(***************************************************************************)
(* Model of experiments/datasets/modelnet/modelnet.py: the filesystem      *)
(* backed repeat cache CacheNPY.  A call of CacheNPY.__call__ is split at  *)
(* every point where it touches the filesystem or calls the transform, so  *)
(* that calls of several callers can interleave.                           *)
(***************************************************************************)
EXTENDS Integers, Sequences, FiniteSets, TLC

\* ------------------------------------------------------------------ bounds
\* The largest repeat a cache is configured with.
MaxRepeat == 2

\* ------------------------------------------------------------ value spaces
\* Source items: head is the directory, root the base name, ext the extension.
ChairObj == [head |-> <<"ModelNet10", "chair", "train">>, root |-> "chair_0001", ext |-> ".obj"]
SofaObj == [head |-> <<"ModelNet10", "sofa", "train">>, root |-> "sofa_0001", ext |-> ".obj"]
Files == {ChairObj, SofaObj}

\* The OFF file that ModelNet10._off2obj converted into ChairObj (line 186
\* writes the .obj next to the .off): same directory, same base name.
ChairOff == [head |-> <<"ModelNet10", "chair", "train">>, root |-> "chair_0001", ext |-> ".off"]
AllFiles == Files \cup {ChairOff}

\* The callers of __call__: caller 1 alone in Spec, both at once in SpecConc.
Callers == {1, 2}

\* Slot indices a file name can carry; one more than any repeat uses.
Idx == 0..MaxRepeat

\* What a transform can return: an array computed from src; v tells apart
\* the outputs of different (randomly rotated) invocations.
Variants == {"rot_a", "rot_b"}
Artifacts == [k : {"npy"}, src : AllFiles, v : Variants]

\* The two classes of exception np.load raises on a file it cannot
\* deserialize, as seen by the except clauses of __call__: OSError (caught)
\* and anything else, e.g. ValueError for a truncated array (not caught).
LoadErrors == {"OSError", "ValueError"}

Missing == [k |-> "missing"]
Invalid == [k : {"invalid"}, exc : LoadErrors]
Content == {Missing} \cup Invalid \cup Artifacts

NoImg == [k |-> "none"]
NoFile == [k |-> "none"]
NoRet == [k |-> "none"]
NoItem == [k |-> "none"]
Raise(e) == [k |-> "raise", exc |-> e]
Value(a) == [k |-> "value", img |-> a]
List(s) == [k |-> "list", out |-> s]

\* --------------------------------------------------------- pure functions
\* range(n)
RangeOffByOne(n) == 0..n
Range(n) == 0..(n - 1)

\* head, tail = split(file_path); root, _ = splitext(tail);
\* npy_path = join(head, prefix + root + '_{0}.npy'); npy_path.format(i)
npy_path(prefix, f, i) == <<f.head, prefix, f.root, i>>

\* os.path.exists(p)
path_exists(content) == content.k # "missing"

\* all(exists)
all(e) == \A j \in DOMAIN e : e[j]

\* exists.index(False): the lowest index marked missing
indexLast(e, val) == CHOOSE j \in DOMAIN e : e[j] = val /\ \A m \in DOMAIN e : e[m] = val => m <= j
index(e, val) == CHOOSE j \in DOMAIN e : e[j] = val /\ \A m \in DOMAIN e : e[m] = val => j <= m

\* np.load(p): "ok" when the file deserializes, else the exception raised.
\* A file that does not exist raises FileNotFoundError, an OSError.
np_load(content) ==
    IF content.k = "npy" THEN "ok"
    ELSE IF content.k = "missing" THEN "OSError"
    ELSE content.exc

\* except OSError / except (OSError, FileNotFoundError)
exceptAny(exc) == exc # "ok"
exceptOSError(exc) == exc = "OSError"

\* ------------------------------------------------------------------ state
VARIABLES
    cache,        \* the CacheNPY instance: prefix, repeat, transform, pick_randomly
    fs,           \* the filesystem: slot path -> content
    pc,           \* per caller: position in __call__
    file_path,    \* per caller: argument of __call__
    exists,       \* per caller: the list exists
    i,            \* per caller: the index i (chosen slot / loop index)
    img,          \* per caller: the local img
    output,       \* per caller: the list output
    ret,          \* per caller: what the call returned or raised
    \* history of the current call, read only by the properties
    pre,          \* per caller: content of the item's slots when the call began
    ntrans,       \* per caller: transform invocations of this call, per target index
    saved,        \* per caller: indices np.save was called on, in order
    failed,       \* per caller: indices whose np.load raised in this call
    traised,      \* per caller: the transform raised in this call
    warm,         \* per caller: the call began with the item fully materialized
    created,      \* slot paths the cache has ever opened for writing
    materialized, \* items an exhaustive call completed on, untouched from outside since
    tmpfile,      \* content of Obj2Voxel's tmpfile ("tmp.npy")
    toolfailed,   \* per caller: obj2voxel returned non-zero in this call
    getitem,      \* the frame of ModelNet10.__getitem__: index, img, target, result
    calls,        \* per item: calls made on it so far
    overlap       \* per caller: another call was in progress during this call

locals == <<pc, file_path, exists, i, img, output, ret>>
history == <<pre, ntrans, saved, failed, traised, warm>>
extra == <<tmpfile, toolfailed, getitem, calls, overlap>>
vars == <<cache, fs, locals, history, created, materialized, extra>>

Paths == {npy_path(cache.prefix, f, j) : f \in Files, j \in Idx}
slotUnformatted(c, j) == npy_path(cache.prefix, file_path[c], 0)
slot(c, j) == npy_path(cache.prefix, file_path[c], j)

Init ==
    /\ cache \in [prefix : {"v64"}, repeat : 1..MaxRepeat,
                  transform : {"transform"}, pick_randomly : BOOLEAN]
    /\ fs = [p \in {npy_path("v64", f, j) : f \in Files, j \in Idx} |-> Missing]
    /\ pc = [c \in Callers |-> "idle"]
    /\ file_path = [c \in Callers |-> NoFile]
    /\ exists = [c \in Callers |-> <<>>]
    /\ i = [c \in Callers |-> -1]
    /\ img = [c \in Callers |-> NoImg]
    /\ output = [c \in Callers |-> <<>>]
    /\ ret = [c \in Callers |-> NoRet]
    /\ pre = [c \in Callers |-> <<>>]
    /\ ntrans = [c \in Callers |-> [j \in Idx |-> 0]]
    /\ saved = [c \in Callers |-> <<>>]
    /\ failed = [c \in Callers |-> {}]
    /\ traised = [c \in Callers |-> FALSE]
    /\ warm = [c \in Callers |-> FALSE]
    /\ created = {}
    /\ materialized = {}
    /\ tmpfile = Missing
    /\ toolfailed = [c \in Callers |-> FALSE]
    /\ getitem = NoItem
    /\ calls = [f \in AllFiles |-> 0]
    /\ overlap = [c \in Callers |-> FALSE]

\* --------------------------------------------------------------- CacheNPY
Rand == cache.pick_randomly

\* The index the fresh artifact of caller c goes to: exists.index(False) in
\* randomized mode (line 72), the loop index in exhaustive mode (line 82).
targetFirst(c) == IF Rand THEN index(exists[c], FALSE) ELSE 0
target(c) == IF Rand THEN index(exists[c], FALSE) ELSE i[c]

\* __call__, lines 56-63, 70, 76: the slot paths, the existence vector and
\* the choice of the branch.
Call(c, f) ==
    /\ pc[c] = "idle"
    /\ LET e == [j \in Range(cache.repeat) |-> path_exists(fs[npy_path(cache.prefix, f, j)])]
       IN /\ exists' = [exists EXCEPT ![c] = e]
          /\ pc' = [pc EXCEPT ![c] = IF Rand /\ all(e) THEN "rand_load"
                                     ELSE IF Rand THEN "rand_trans"
                                     ELSE "loop"]
    /\ file_path' = [file_path EXCEPT ![c] = f]
    /\ i' = [i EXCEPT ![c] = IF Rand THEN -1 ELSE 0]
    /\ pre' = [pre EXCEPT ![c] = [j \in Idx |-> fs[npy_path(cache.prefix, f, j)]]]
    /\ warm' = [warm EXCEPT ![c] = f \in materialized]
    /\ UNCHANGED <<cache, fs, img, output, ret, ntrans, saved, failed, traised,
                   created, materialized>>

\* A call by a caller while no other call is in progress.
CallAlone(c, f) ==
    /\ \A d \in Callers : pc[d] = "idle"
    /\ Call(c, f)
    /\ UNCHANGED extra

\* lines 64-68: i = randint(repeat); return np.load(slot i), or on OSError
\* mark slot i missing and fall through; any other exception propagates.
rand_load(c) ==
    /\ pc[c] = "rand_load"
    /\ \E r \in Range(cache.repeat) :
         LET res == np_load(fs[slot(c, r)])
         IN /\ i' = [i EXCEPT ![c] = r]
            /\ IF res = "ok"
               THEN /\ ret' = [ret EXCEPT ![c] = Value(fs[slot(c, r)])]
                    /\ pc' = [pc EXCEPT ![c] = "done"]
                    /\ UNCHANGED <<exists, failed>>
               ELSE IF exceptOSError(res)
               THEN /\ exists' = [exists EXCEPT ![c][r] = FALSE]
                    /\ failed' = [failed EXCEPT ![c] = @ \cup {r}]
                    /\ pc' = [pc EXCEPT ![c] = "rand_trans"]
                    /\ UNCHANGED ret
               ELSE /\ ret' = [ret EXCEPT ![c] = Raise(res)]
                    /\ failed' = [failed EXCEPT ![c] = @ \cup {r}]
                    /\ pc' = [pc EXCEPT ![c] = "done"]
                    /\ UNCHANGED exists
    /\ UNCHANGED <<cache, fs, file_path, img, output, pre, ntrans, saved, traised,
                   warm, created, materialized, extra>>

\* check_trans, lines 48-54, called at lines 71 and 81: the transform
\* returns a fresh artifact of the item ...
check_trans_return(c) ==
    /\ pc[c] \in {"rand_trans", "ex_trans"}
    /\ \E v \in Variants :
         img' = [img EXCEPT ![c] = [k |-> "npy", src |-> file_path[c], v |-> v]]
    /\ ntrans' = [ntrans EXCEPT ![c][target(c)] = @ + 1]
    /\ pc' = [pc EXCEPT ![c] = IF Rand THEN "rand_save" ELSE "ex_save"]
    /\ UNCHANGED <<cache, fs, file_path, exists, i, output, ret, pre, saved, failed,
                   traised, warm, created, materialized, extra>>

\* (check_trans with "except: return a placeholder" in place of "raise")
check_trans_swallow(c) ==
    /\ pc[c] \in {"rand_trans", "ex_trans"}
    /\ img' = [img EXCEPT ![c] = [k |-> "npy", src |-> file_path[c], v |-> "rot_a"]]
    /\ ntrans' = [ntrans EXCEPT ![c][target(c)] = @ + 1]
    /\ traised' = [traised EXCEPT ![c] = TRUE]
    /\ pc' = [pc EXCEPT ![c] = IF Rand THEN "rand_save" ELSE "ex_save"]
    /\ UNCHANGED <<cache, fs, file_path, exists, i, output, ret, pre, saved, failed,
                   warm, created, materialized, extra>>
\* ... or raises, and check_trans re-raises (lines 52-54): neither line 71
\* nor line 81 catches it, so __call__ ends with the same exception.
check_trans_raise(c) ==
    /\ pc[c] \in {"rand_trans", "ex_trans"}
    /\ ntrans' = [ntrans EXCEPT ![c][target(c)] = @ + 1]
    /\ traised' = [traised EXCEPT ![c] = TRUE]
    /\ ret' = [ret EXCEPT ![c] = Raise("TransformFailure")]
    /\ pc' = [pc EXCEPT ![c] = "done"]
    /\ UNCHANGED <<cache, fs, file_path, exists, i, img, output, pre, saved, failed,
                   warm, created, materialized, extra>>

\* np.save(npy_path.format(k), img), lines 72 and 82, first half: the file
\* is opened for writing, which creates or truncates it; until the array is
\* written it does not deserialize.
np_save_open(c) ==
    /\ pc[c] \in {"rand_save", "ex_save"}
    /\ \E t \in Invalid : fs' = [fs EXCEPT ![slot(c, target(c))] = t]
    /\ created' = created \cup {slot(c, target(c))}
    /\ saved' = [saved EXCEPT ![c] = Append(@, target(c))]
    /\ pc' = [pc EXCEPT ![c] = IF Rand THEN "rand_write" ELSE "ex_write"]
    /\ UNCHANGED <<cache, file_path, exists, i, img, output, ret, pre, ntrans, failed,
                   traised, warm, materialized, extra>>

\* (np_save_write without the "return img" of line 74: the randomized branch
\* falls through into the loop of line 77)
np_save_write_fallthrough(c) ==
    /\ pc[c] \in {"rand_write", "ex_write"}
    /\ fs' = [fs EXCEPT ![slot(c, target(c))] = img[c]]
    /\ output' = [output EXCEPT ![c] = IF Rand THEN <<>> ELSE Append(@, img[c])]
    /\ i' = [i EXCEPT ![c] = IF Rand THEN 0 ELSE @ + 1]
    /\ pc' = [pc EXCEPT ![c] = "loop"]
    /\ UNCHANGED <<cache, file_path, exists, img, ret, pre, ntrans, saved, failed,
                   traised, warm, created, materialized, extra>>

\* np.save, second half: the array is written and the file closed.  Then
\* line 74 returns img, or line 83 appends it and the loop goes on.
np_save_write(c) ==
    /\ pc[c] \in {"rand_write", "ex_write"}
    /\ fs' = [fs EXCEPT ![slot(c, target(c))] = img[c]]
    /\ IF Rand
       THEN /\ ret' = [ret EXCEPT ![c] = Value(img[c])]
            /\ pc' = [pc EXCEPT ![c] = "done"]
            /\ UNCHANGED <<output, i>>
       ELSE /\ output' = [output EXCEPT ![c] = Append(@, img[c])]
            /\ i' = [i EXCEPT ![c] = @ + 1]
            /\ pc' = [pc EXCEPT ![c] = "loop"]
            /\ UNCHANGED ret
    /\ UNCHANGED <<cache, file_path, exists, img, pre, ntrans, saved, failed,
                   traised, warm, created, materialized, extra>>

\* (the loop without the np.load of line 79: every index is recomputed)
loop_recompute(c) ==
    /\ pc[c] = "loop"
    /\ i[c] \in Range(cache.repeat)
    /\ pc' = [pc EXCEPT ![c] = "ex_trans"]
    /\ UNCHANGED <<cache, fs, file_path, exists, i, img, output, ret, pre, ntrans,
                   saved, failed, traised, warm, created, materialized, extra>>

\* lines 77-80 and 83: one iteration of the loop up to the load.
loop_load(c) ==
    /\ pc[c] = "loop"
    /\ i[c] \in Range(cache.repeat)
    /\ LET res == np_load(fs[slot(c, i[c])])
       IN IF res = "ok"
          THEN /\ output' = [output EXCEPT ![c] = Append(@, fs[slot(c, i[c])])]
               /\ i' = [i EXCEPT ![c] = @ + 1]
               /\ UNCHANGED <<pc, ret, failed>>
          ELSE IF exceptOSError(res)
          THEN /\ failed' = [failed EXCEPT ![c] = @ \cup {i[c]}]
               /\ pc' = [pc EXCEPT ![c] = "ex_trans"]
               /\ UNCHANGED <<output, i, ret>>
          ELSE /\ ret' = [ret EXCEPT ![c] = Raise(res)]
               /\ failed' = [failed EXCEPT ![c] = @ \cup {i[c]}]
               /\ pc' = [pc EXCEPT ![c] = "done"]
               /\ UNCHANGED <<output, i>>
    /\ UNCHANGED <<cache, fs, file_path, exists, img, pre, ntrans, saved, traised,
                   warm, created, materialized, extra>>

\* line 85: the loop is over, return output.
loop_return(c) ==
    /\ pc[c] = "loop"
    /\ i[c] \notin Range(cache.repeat)
    /\ ret' = [ret EXCEPT ![c] = List(output[c])]
    /\ pc' = [pc EXCEPT ![c] = "done"]
    /\ materialized' = materialized \cup {file_path[c]}
    /\ UNCHANGED <<cache, fs, file_path, exists, i, img, output, pre, ntrans, saved,
                   failed, traised, warm, created, extra>>

\* The caller takes the result; the locals of the call are gone.
return_frame(c) ==
    /\ pc[c] = "done"
    /\ pc' = [pc EXCEPT ![c] = "idle"]
    /\ file_path' = [file_path EXCEPT ![c] = NoFile]
    /\ exists' = [exists EXCEPT ![c] = <<>>]
    /\ i' = [i EXCEPT ![c] = -1]
    /\ img' = [img EXCEPT ![c] = NoImg]
    /\ output' = [output EXCEPT ![c] = <<>>]
    /\ ret' = [ret EXCEPT ![c] = NoRet]
    /\ pre' = [pre EXCEPT ![c] = <<>>]
    /\ ntrans' = [ntrans EXCEPT ![c] = [j \in Idx |-> 0]]
    /\ saved' = [saved EXCEPT ![c] = <<>>]
    /\ failed' = [failed EXCEPT ![c] = {}]
    /\ traised' = [traised EXCEPT ![c] = FALSE]
    /\ warm' = [warm EXCEPT ![c] = FALSE]
    /\ UNCHANGED <<cache, fs, created, materialized>>

Return(c) ==
    /\ return_frame(c)
    /\ UNCHANGED extra

\* ------------------------------------------------------------ environment
\* Between calls a slot file is replaced with invalid bytes, or removed,
\* from outside the cache.
owners(p) == {f \in Files : \E j \in Idx : npy_path(cache.prefix, f, j) = p}

Corrupt(p) ==
    /\ \A d \in Callers : pc[d] = "idle"
    /\ fs[p].k = "npy"
    /\ \E t \in Invalid : fs' = [fs EXCEPT ![p] = t]
    /\ materialized' = materialized \ owners(p)
    /\ UNCHANGED <<cache, locals, history, created, extra>>

Delete(p) ==
    /\ \A d \in Callers : pc[d] = "idle"
    /\ fs[p].k # "missing"
    /\ fs' = [fs EXCEPT ![p] = Missing]
    /\ materialized' = materialized \ owners(p)
    /\ UNCHANGED <<cache, locals, history, created, extra>>

\* --------------------------------------------------------- specifications
Step(c) ==
    \/ rand_load(c)
    \/ check_trans_return(c)
    \/ check_trans_raise(c)
    \/ np_save_open(c)
    \/ np_save_write(c)
    \/ loop_load(c)
    \/ loop_return(c)
    \/ Return(c)

\* A single caller, one call at a time, files damaged or removed between calls.
Next ==
    \/ \E f \in Files : CallAlone(1, f)
    \/ \E c \in Callers : Step(c)
    \/ \E p \in Paths : Corrupt(p)
    \/ \E p \in Paths : Delete(p)

Spec == Init /\ [][Next]_vars

\* Callers call concurrently on the same item; nothing but the cache touches
\* the files.
SharedItem == CHOOSE f \in Files : f.root = "chair_0001"

\* A call made while other calls may be in progress: it and every call in
\* progress then overlap.
CallConc(c, f) ==
    /\ Call(c, f)
    /\ overlap' = [d \in Callers |->
                      IF d = c THEN \E e \in Callers \ {c} : pc[e] # "idle"
                      ELSE overlap[d] \/ pc[d] # "idle"]
    /\ UNCHANGED <<tmpfile, toolfailed, getitem, calls>>

NextConc ==
    \/ \E c \in Callers : CallConc(c, SharedItem)
    \/ \E c \in Callers : Step(c)

SpecConc == Init /\ [][NextConc]_vars

TypeOK ==
    /\ fs \in [Paths -> Content]
    /\ pc \in [Callers -> {"idle", "rand_load", "rand_trans", "rand_save", "rand_write",
                          "loop", "ex_trans", "ex_save", "ex_write", "done",
                          "o2v_load"}]
    /\ \A c \in Callers : img[c] \in Artifacts \cup {NoImg}

\* ------------------------------------------------------------- properties
RECURSIVE SumTo(_, _)
SumTo(n, j) == IF j < 0 THEN 0 ELSE n[j] + SumTo(n, j - 1)

\* Transform invocations of the current call of caller c.
Invocations(c) == SumTo(ntrans[c], MaxRepeat)

\* C1: an exhaustive-mode call on an item that an earlier exhaustive-mode
\* call completed on, no slot of it deleted or corrupted since, invokes the
\* transform zero times.
ExhaustiveIdempotent ==
    \A c \in Callers : (~Rand /\ warm[c]) => Invocations(c) = 0

ExhaustiveIdempotentWitness ==
    \E c \in Callers :
        /\ ~Rand /\ warm[c] /\ pc[c] = "done"
        /\ ret[c].k = "list" /\ Len(ret[c].out) = MaxRepeat

\* C2: whatever calls were made, in either mode, through corrupt slots and
\* failing transforms, the slot files the cache created for an item carry
\* only indices in [0, repeat).
SlotBound ==
    /\ created \subseteq {npy_path(cache.prefix, f, j) : f \in Files, j \in Range(cache.repeat)}
    /\ \A f \in Files : \A j \in Idx \ (0..(cache.repeat - 1)) :
           fs[npy_path(cache.prefix, f, j)] = Missing

SlotBoundWitness ==
    \E c \in Callers :
        /\ pc[c] = "done" /\ saved[c] # <<>>
        /\ \E j \in Idx : pre[c][j].k = "invalid"
        /\ \A j \in 0..(cache.repeat - 1) : slot(c, j) \in created
        /\ cache.repeat < MaxRepeat

\* What the slots of the item of caller c hold now.
now(c, j) == fs[slot(c, j)]

\* C3: an exhaustive-mode call invokes the transform exactly once for each
\* index in [0, repeat) whose slot is missing or fails to load and never for
\* one whose slot loads, persists each fresh artifact under that index, and
\* returns exactly repeat artifacts in index order.  (Stated for the calls
\* in which no transform invocation raised.)
ExhaustiveFillsEachIndex ==
    \A c \in Callers :
        (~Rand /\ pc[c] = "done" /\ ~traised[c]) =>
            /\ ret[c].k = "list"
            /\ Len(ret[c].out) = cache.repeat
            /\ \A j \in 0..(cache.repeat - 1) :
                 /\ ntrans[c][j] = (IF pre[c][j].k = "npy" THEN 0 ELSE 1)
                 /\ ret[c].out[j + 1] = now(c, j)
                 /\ pre[c][j].k = "npy" => now(c, j) = pre[c][j]

\* C4: a randomized-mode call that finds all repeat slots and whose chosen
\* slot i loads returns the artifact stored in slot i, invokes no transform
\* and writes no slot file.
RandomizedHit ==
    \A c \in Callers :
        ( /\ Rand /\ pc[c] = "done"
          /\ \A j \in 0..(cache.repeat - 1) : pre[c][j].k # "missing"
          /\ i[c] \in 0..(cache.repeat - 1)
          /\ pre[c][i[c]].k = "npy" ) =>
            /\ ret[c] = Value(pre[c][i[c]])
            /\ Invocations(c) = 0
            /\ saved[c] = <<>>
            /\ \A j \in Idx : now(c, j) = pre[c][j]

RandomizedHitWitness ==
    \E c \in Callers :
        /\ Rand /\ pc[c] = "done" /\ cache.repeat = MaxRepeat
        /\ \A j \in 0..(cache.repeat - 1) : pre[c][j].k = "npy"
        /\ i[c] = 1 /\ pre[c][1] # pre[c][0]
        /\ ret[c].k = "value"

\* The lowest index in [0, repeat) whose slot did not exist when the call began.
FirstMissingBefore(c) ==
    CHOOSE j \in 0..(cache.repeat - 1) :
        /\ pre[c][j].k = "missing"
        /\ \A m \in 0..(j - 1) : pre[c][m].k # "missing"

RandomizedMissCase(c) ==
    /\ Rand /\ pc[c] = "done"
    /\ \E j \in 0..(cache.repeat - 1) : pre[c][j].k = "missing"

RandomizedMissPersisted(c) ==
    /\ saved[c] = <<FirstMissingBefore(c)>>
    /\ ret[c].k = "value"
    /\ ret[c].img.k = "npy"
    /\ now(c, FirstMissingBefore(c)) = ret[c].img
    /\ \A j \in Idx \ {FirstMissingBefore(c)} : now(c, j) = pre[c][j]

\* C5 as stated: a randomized-mode call that finds a slot missing invokes
\* the transform exactly once, persists the fresh artifact to the lowest
\* missing index, leaves the other slots alone and returns the artifact.
RandomizedMissAlwaysPersists ==
    \A c \in Callers :
        RandomizedMissCase(c) => (Invocations(c) = 1 /\ RandomizedMissPersisted(c))

\* C5 as amended: ... invokes the transform exactly once and, unless that
\* invocation raises, persists the artifact to the lowest missing index and
\* returns it; in every case the other slots are left unchanged.
RandomizedMiss ==
    \A c \in Callers :
        RandomizedMissCase(c) =>
            /\ Invocations(c) = 1
            /\ ntrans[c][FirstMissingBefore(c)] = 1
            /\ ~traised[c] => RandomizedMissPersisted(c)
            /\ \A j \in Idx \ {FirstMissingBefore(c)} : now(c, j) = pre[c][j]

RandomizedMissWitness ==
    \E c \in Callers :
        /\ RandomizedMissCase(c) /\ ~traised[c]
        /\ cache.repeat = MaxRepeat
        /\ pre[c][0].k = "invalid" /\ pre[c][1].k = "missing"
        /\ ret[c].k = "value"

\* C6: a randomized-mode call, on every path, invokes the transform at most
\* once and writes at most one slot file.
RandomizedAtMostOnce ==
    \A c \in Callers :
        Rand => (Invocations(c) <= 1 /\ Len(saved[c]) <= 1)

RandomizedAtMostOnceWitness ==
    \E c \in Callers :
        /\ Rand /\ pc[c] = "done" /\ cache.repeat = MaxRepeat
        /\ failed[c] # {} /\ Invocations(c) = 1 /\ Len(saved[c]) = 1

\* The artifacts a finished call handed to its caller.
Returned(c) ==
    IF ret[c].k = "value" THEN {ret[c].img}
    ELSE IF ret[c].k = "list" THEN {ret[c].out[n] : n \in 1..Len(ret[c].out)}
    ELSE {}

\* C7: a call on an item one of whose slot files holds invalid bytes never
\* returns the invalid content and never ends in an error caused by it (the
\* only error a call may end in is a failure of the transform).
CorruptionRecovered ==
    \A c \in Callers :
        (pc[c] = "done" /\ \E j \in 0..(cache.repeat - 1) : pre[c][j].k = "invalid") =>
            /\ \A a \in Returned(c) : a.k = "npy"
            /\ ret[c].k = "raise" => traised[c]

\* C8: when the transform raises, the call ends at once with that failure,
\* returns nothing, has not written the slot it was computing, and the
\* slots are as they were before the failing invocation: those the call
\* wrote earlier hold what it wrote, all others what they held at its start.
TransformFailurePropagates ==
    \A c \in Callers :
        traised[c] =>
            /\ pc[c] = "done"
            /\ ret[c] = Raise("TransformFailure")
            /\ Returned(c) = {}
            /\ \A n \in 1..Len(saved[c]) : saved[c][n] # target(c)
            /\ now(c, target(c)) = pre[c][target(c)]
            /\ \A j \in Idx :
                 IF \E n \in 1..Len(saved[c]) : saved[c][n] = j
                 THEN now(c, j).k = "npy" /\ now(c, j) = output[c][j + 1]
                 ELSE now(c, j) = pre[c][j]

TransformFailurePropagatesWitness ==
    \E c \in Callers :
        /\ traised[c] /\ ~Rand /\ cache.repeat = MaxRepeat
        /\ saved[c] = <<0>> /\ target(c) = 1
        /\ pre[c][0].k = "invalid" /\ pre[c][1].k = "invalid"

TransformFailureRandomizedWitness ==
    \E c \in Callers :
        /\ traised[c] /\ Rand /\ failed[c] # {} /\ pre[c][target(c)].k = "invalid"

\* Caller c is between the two halves of np.save.
Writing(c) == pc[c] \in {"rand_write", "ex_write"}

\* C9: under any interleaving of calls on the same item no call crashes (a
\* call ends in an error only if its transform raised), no slot is left
\* holding content that does not load, and the slot bound holds.
ConcurrentCallsSafe ==
    /\ \A c \in Callers : ret[c].k = "raise" => traised[c]
    /\ (\A c \in Callers : ~Writing(c)) => \A p \in Paths : fs[p].k # "invalid"
    /\ SlotBound

\* The cache step from this state to the next changes slot p.
Changes(p) == fs'[p] # fs[p]

\* Caller c is inside np.save on slot p.
Saving(c, p) ==
    /\ pc[c] \in {"rand_save", "ex_save", "rand_write", "ex_write"}
    /\ p = npy_path(cache.prefix, file_path[c], target(c))

\* The call of caller c found slot j missing or failed to load it.
JudgedUnusable(c, j) == pre[c][j].k = "missing" \/ j \in failed[c]

\* C10 as stated: the cache never overwrites or deletes a slot while its
\* content is valid.
ValidSlotNeverOverwritten ==
    [][\A p \in Paths : fs[p].k = "npy" => ~Changes(p)]_vars

\* C10 as amended: the cache never deletes a slot, and it changes an
\* existing slot only inside the np.save of a call that found that slot
\* missing or failed to load it.
SlotOverwrittenOnlyWhenJudgedUnusable ==
    [][\A p \in Paths :
          /\ fs[p].k # "missing" => fs'[p].k # "missing"
          /\ (fs[p].k # "missing" /\ Changes(p)) =>
                \E c \in Callers : Saving(c, p) /\ JudgedUnusable(c, target(c))]_vars

\* Two callers both found slot 0 of the same item missing and both wrote it.
SlotOverwrittenWitness ==
    \E c, d \in Callers :
        /\ c # d /\ file_path[c] = file_path[d]
        /\ pc[c] = "done" /\ pc[d] = "done"
        /\ saved[c] = <<0>> /\ saved[d] = <<0>>
        /\ pre[c][0].k = "missing" /\ pre[d][0].k = "missing"

\* ------------------------------------------------------------- ModelNet10
\* self.files = sorted(glob(root/ModelNet10/*/train/*.obj)), line 112: the
\* .obj items in the order of their path strings.
files == <<ChairObj, SofaObj>>

\* The indices __getitem__ is called with: some inside, some on either side.
Indices == (0 - Len(files) - 1)..(Len(files) + 1)

\* seq[n] of a Python list: n counts from the end when negative, and
\* IndexError outside [-len, len).
py_in_range(seq, n) == (0 - Len(seq)) <= n /\ n < Len(seq)
py_item(seq, n) == IF n >= 0 THEN seq[n + 1] ELSE seq[Len(seq) + n + 1]

\* img.split(os.path.sep): the directories, then the file name.
split_sep(f) == Append(f.head, <<f.root, f.ext>>)

\* target = img.split(os.path.sep)[-3], line 116
label_second_last(f) == py_item(split_sep(f), -2)
label(f) == py_item(split_sep(f), -3)

\* The label mapping the consumer injected (line 122), applied to a token.
target_transform(token) == <<"target_transform", token>>

\* lines 114-119: files[index], the label token, and the call of the
\* transform, which is the cache; or IndexError from line 115.
getitem_call(n) ==
    /\ getitem.k = "none"
    /\ \A d \in Callers : pc[d] = "idle"
    /\ IF py_in_range(files, n)
       THEN /\ Call(1, py_item(files, n))
            /\ getitem' = [k |-> "call", index |-> n, item |-> py_item(files, n),
                           target |-> label(py_item(files, n))]
       ELSE /\ getitem' = [k |-> "raise", index |-> n, exc |-> "IndexError"]
            /\ UNCHANGED <<cache, fs, locals, history, created, materialized>>
    /\ UNCHANGED <<tmpfile, toolfailed, calls, overlap>>

\* lines 119-124: the transform has returned or raised; the label is mapped
\* and the pair returned, or the exception goes to the caller.
getitem_return ==
    /\ getitem.k = "call"
    /\ return_frame(1)
    /\ getitem' = IF ret[1].k = "raise"
                  THEN [k |-> "raise", index |-> getitem.index, exc |-> ret[1].exc]
                  ELSE [k |-> "return", index |-> getitem.index, item |-> getitem.item,
                        img |-> ret[1], target |-> target_transform(getitem.target)]
    /\ UNCHANGED <<tmpfile, toolfailed, calls, overlap>>

\* The consumer has taken the pair (or the exception).
getitem_taken ==
    /\ getitem.k \in {"return", "raise"}
    /\ getitem' = NoItem
    /\ UNCHANGED <<cache, fs, locals, history, created, materialized,
                   tmpfile, toolfailed, calls, overlap>>

\* The steps of a call of the cache between its beginning and its return.
Work(c) ==
    \/ rand_load(c)
    \/ check_trans_return(c)
    \/ check_trans_raise(c)
    \/ np_save_open(c)
    \/ np_save_write(c)
    \/ loop_load(c)
    \/ loop_return(c)

\* The dataset read by a single consumer, item after item.
NextData ==
    \/ \E n \in Indices : getitem_call(n)
    \/ Work(1)
    \/ getitem_return
    \/ getitem_taken

SpecData == Init /\ [][NextData]_vars

\* C11: an index outside [0, length()), length() and the negative ones
\* included, gets an out-of-range error and never a pair; an index inside
\* gets the pair of the item at that position of the sorted enumeration.
IndexValidated ==
    /\ getitem.k \in {"call", "return"} =>
           /\ getitem.index \in 0..(Len(files) - 1)
           /\ getitem.item = files[getitem.index + 1]
    /\ (getitem.k = "raise" /\ getitem.index \in 0..(Len(files) - 1)) =>
           getitem.exc # "IndexError"

\* C14: the label token that reaches the label mapping is the <label>
\* directory of the item: chair for ModelNet10/chair/train/chair_0001.obj.
LabelIsLabelDirectory ==
    getitem.k = "return" =>
        /\ getitem.item = ChairObj => getitem.target = target_transform("chair")
        /\ getitem.item = SofaObj => getitem.target = target_transform("sofa")
        /\ getitem.target = target_transform(getitem.item.head[2])

LabelIsLabelDirectoryWitness ==
    /\ getitem.k = "return"
    /\ getitem.item = ChairObj
    /\ getitem.index = 0
    /\ getitem.target = target_transform("chair")

\* -------------------------------------------------------------- Obj2Voxel
\* The cache of the module's usage note (line 14): its transform is an
\* Obj2Voxel, whose tmpfile is the one fixed path "tmp.npy" (line 28).

\* line 37, subprocess.run(command): obj2voxel converts file_path and writes
\* the voxels to tmpfile ...
o2v_run_ok(c) ==
    /\ pc[c] \in {"rand_trans", "ex_trans"}
    /\ \E v \in Variants :
         tmpfile' = [k |-> "npy", src |-> file_path[c], v |-> v]
    /\ ntrans' = [ntrans EXCEPT ![c][target(c)] = @ + 1]
    /\ pc' = [pc EXCEPT ![c] = "o2v_load"]
    /\ UNCHANGED <<cache, fs, file_path, exists, i, img, output, ret, pre, saved,
                   failed, traised, warm, created, materialized,
                   toolfailed, getitem, calls, overlap>>

\* ... or fails and returns non-zero, writing nothing; run() is called
\* without check=True and its result is dropped, so line 38 is next.
o2v_run_fail(c) ==
    /\ pc[c] \in {"rand_trans", "ex_trans"}
    /\ toolfailed' = [toolfailed EXCEPT ![c] = TRUE]
    /\ ntrans' = [ntrans EXCEPT ![c][target(c)] = @ + 1]
    /\ pc' = [pc EXCEPT ![c] = "o2v_load"]
    /\ UNCHANGED <<cache, fs, file_path, exists, i, img, output, ret, pre, saved,
                   failed, traised, warm, created, materialized,
                   tmpfile, getitem, calls, overlap>>

\* line 38, np.load(self.tmpfile): whatever tmpfile holds now is the result;
\* if there is no tmpfile np.load raises, check_trans re-raises (52-54).
o2v_load(c) ==
    /\ pc[c] = "o2v_load"
    /\ IF np_load(tmpfile) = "ok"
       THEN /\ img' = [img EXCEPT ![c] = tmpfile]
            /\ pc' = [pc EXCEPT ![c] = IF Rand THEN "rand_save" ELSE "ex_save"]
            /\ UNCHANGED <<ret, traised>>
       ELSE /\ traised' = [traised EXCEPT ![c] = TRUE]
            /\ ret' = [ret EXCEPT ![c] = Raise("TransformFailure")]
            /\ pc' = [pc EXCEPT ![c] = "done"]
            /\ UNCHANGED img
    /\ UNCHANGED <<cache, fs, file_path, exists, i, output, pre, ntrans, saved,
                   failed, warm, created, materialized, extra>>

CallO2V(c, f) ==
    /\ Call(c, f)
    /\ toolfailed' = [toolfailed EXCEPT ![c] = FALSE]
    /\ UNCHANGED <<tmpfile, getitem, calls, overlap>>

\* Two callers (data-loading workers) call concurrently, each on its own
\* item, a cache whose transform is an Obj2Voxel.
ItemOf(c) == IF c = 1 THEN ChairObj ELSE SofaObj

NextO2V ==
    \/ \E c \in Callers : CallO2V(c, ItemOf(c))
    \/ \E c \in Callers : o2v_run_ok(c)
    \/ \E c \in Callers : o2v_run_fail(c)
    \/ \E c \in Callers : o2v_load(c)
    \/ \E c \in Callers : rand_load(c)
    \/ \E c \in Callers : np_save_open(c)
    \/ \E c \in Callers : np_save_write(c)
    \/ \E c \in Callers : loop_load(c)
    \/ \E c \in Callers : loop_return(c)
    \/ \E c \in Callers : Return(c)

SpecO2V == Init /\ [][NextO2V]_vars

\* C12: when obj2voxel returns non-zero for an item, the call for that item
\* fails, and no artifact is returned or persisted for it.
ToolFailureFailsCall ==
    \A c \in Callers :
        (toolfailed[c] /\ pc[c] # "idle") =>
            /\ pc[c] \in {"o2v_load", "done"}
            /\ pc[c] = "done" => ret[c].k = "raise"

\* C16: every artifact a call returns for an item, and every artifact
\* stored in a slot of an item, was computed from that item's source.
Provenance ==
    /\ \A c \in Callers : \A a \in Returned(c) : a.src = file_path[c]
    /\ \A f \in Files : \A j \in Idx :
         LET a == fs[npy_path(cache.prefix, f, j)]
         IN a.k = "npy" => a.src = f

\* ------------------------------------------------------ items side by side
\* A single caller calls the cache on the items of a directory in which
\* _off2obj left every .off next to its .obj.
\* How far calls counts: enough to tell the calls that fill the repeat
\* slots from the ones after them.
MaxCalls == MaxRepeat + 2

\* A call while no other call is in progress, counted in calls.
CallCounted(c, f) ==
    /\ \A d \in Callers : pc[d] = "idle"
    /\ Call(c, f)
    /\ calls' = [calls EXCEPT ![f] = IF @ < MaxCalls THEN @ + 1 ELSE @]
    /\ UNCHANGED <<tmpfile, toolfailed, getitem, overlap>>

NextSiblings ==
    \/ \E f \in AllFiles : CallCounted(1, f)
    \/ \E c \in Callers : Step(c)

SpecSiblings == Init /\ [][NextSiblings]_vars

\* C13: the slot paths of a call are those of its item alone: a different
\* item, or the same item with a different index, never has the same path.
SlotPathsDistinct ==
    \A c \in Callers :
        pc[c] # "idle" =>
            \A g \in AllFiles : \A j, m \in Idx :
                slot(c, j) = npy_path(cache.prefix, g, m) => (g = file_path[c] /\ j = m)

\* C19: a step of a call on one item leaves the slot files of every other
\* item, and the configuration of the cache, as they are.
FrameOfCall ==
    [][\A c \in Callers :
          pc[c] # "idle" =>
              /\ cache' = cache
              /\ \A g \in AllFiles \ {file_path[c]} : \A j \in Idx :
                   calls[g] > 0 =>
                       fs'[npy_path(cache.prefix, g, j)] = fs[npy_path(cache.prefix, g, j)]]_vars

\* C15: a randomized-mode call that finds all slots present and fails to load
\* the chosen slot i invokes the transform exactly once, writes the fresh
\* artifact to slot i itself, serves no other slot, and returns the fresh
\* artifact.  (Stated for the calls in which the transform did not raise.)
RandomizedFailedLoad ==
    \A c \in Callers :
        ( /\ Rand /\ pc[c] = "done" /\ ~traised[c]
          /\ \A j \in 0..(cache.repeat - 1) : pre[c][j].k # "missing"
          /\ i[c] \in 0..(cache.repeat - 1)
          /\ pre[c][i[c]].k = "invalid" ) =>
            /\ Invocations(c) = 1
            /\ ntrans[c][i[c]] = 1
            /\ saved[c] = <<i[c]>>
            /\ ret[c] = Value(img[c])
            /\ now(c, i[c]) = img[c]
            /\ \A j \in Idx \ {i[c]} : now(c, j) = pre[c][j]

\* ------------------------------------------------- sequential fill of slots
\* The steps of a call whose transform returns.
FillStep(c) ==
    \/ rand_load(c)
    \/ check_trans_return(c)
    \/ np_save_open(c)
    \/ np_save_write(c)
    \/ loop_load(c)
    \/ loop_return(c)
    \/ Return(c)

\* A single caller, counted calls on items with their own slots, a transform
\* that never raises, no file damaged or removed: the slots start missing.
NextFill ==
    \/ \E f \in Files : CallCounted(1, f)
    \/ \E c \in Callers : FillStep(c)

SpecFill == Init /\ [][NextFill]_vars

\* C17: in randomized mode the k-th call on an item (1 <= k <= repeat) invokes
\* the transform once and creates exactly slot k-1; from call repeat on all
\* slots exist, and every later call invokes the transform zero times and
\* writes no file.
SequentialFill ==
    \A c \in Callers :
        (Rand /\ pc[c] = "done") =>
            LET k == calls[file_path[c]] IN
            /\ k >= 1
            /\ k <= cache.repeat =>
                /\ Invocations(c) = 1
                /\ ntrans[c][k - 1] = 1
                /\ saved[c] = <<k - 1>>
                /\ \A j \in Idx : (pre[c][j].k = "missing") <=> (j >= k - 1)
                /\ \A j \in Idx : (now(c, j).k = "npy") <=> (j <= k - 1)
            /\ k >= cache.repeat =>
                \A j \in Range(cache.repeat) : now(c, j).k = "npy"
            /\ k > cache.repeat =>
                /\ Invocations(c) = 0
                /\ saved[c] = <<>>
                /\ \A j \in Idx : now(c, j) = pre[c][j]

\* The last filling call and a later call have both returned.
SequentialFillWitness ==
    /\ Rand /\ cache.repeat > 1 /\ pc[1] = "done"
    /\ calls[file_path[1]] > cache.repeat
    /\ \E g \in Files \ {file_path[1]} : calls[g] = cache.repeat

\* ------------------------------------------------- returned versus stored
\* What a returning call hands back is what its slots hold: each element of
\* the list of an exhaustive call, and the artifact a randomized call
\* computed and saved.
ReturnedIsStored(c) ==
    /\ ret[c].k = "list" =>
          /\ Len(ret[c].out) = cache.repeat
          /\ \A j \in Range(cache.repeat) : ret[c].out[j + 1] = now(c, j)
    /\ (ret[c].k = "value" /\ Invocations(c) = 1) =>
          /\ Len(saved[c]) = 1
          /\ ret[c].img = now(c, saved[c][1])

\* C18 as stated: whenever a call returns, what it returns equals what its
\* slots then hold.
ReturnedEqualsPersisted ==
    \A c \in Callers : pc[c] = "done" => ReturnedIsStored(c)

\* C18, amended: what a call returns equals what its slots then hold when no
\* other call was in progress at any time during the call.
ReturnedEqualsPersistedAlone ==
    \A c \in Callers : (pc[c] = "done" /\ ~overlap[c]) => ReturnedIsStored(c)

\* An exhaustive call that computed and saved a slot returns its list with no
\* other call in progress meanwhile, and so does a randomized call.
ReturnedEqualsPersistedWitness ==
    /\ pc[1] = "done" /\ ~overlap[1]
    /\ Invocations(1) >= 1
    /\ ret[1].k = IF Rand THEN "value" ELSE "list"
    /\ pc[2] = "idle" /\ ret[2].k = "none"

\* ---------------------------------------------------------- eventual repair
\* Slot files of the item are damaged or removed between calls, but only
\* until the item has been called MaxCalls times.
Damage(p) ==
    /\ calls[ChairObj] < MaxCalls
    /\ Corrupt(p) \/ Delete(p)

\* A single caller calling one item again and again, a transform that never
\* raises, damage of the slot files that eventually stops.
NextRepair ==
    \/ CallCounted(1, ChairObj)
    \/ \E c \in Callers : FillStep(c)
    \/ \E p \in Paths : Damage(p)

\* The caller keeps calling and every call runs to its end; randint is
\* uniform over the indices, so an index that can be drawn again and again
\* is drawn again and again.
SpecRepair ==
    /\ Init
    /\ [][NextRepair]_vars
    /\ WF_vars(CallCounted(1, ChairObj))
    /\ WF_vars(FillStep(1))
    /\ \A r \in Idx : SF_vars(rand_load(1) /\ i'[1] = r)

\* All slots of the item hold artifacts that load.
AllSlotsLoad(f) ==
    \A j \in Range(cache.repeat) : np_load(fs[npy_path(cache.prefix, f, j)]) = "ok"

\* C20: in randomized mode, under repeated calls on an item in which every
\* index is chosen again and again, eventually all repeat slots of the item
\* exist and load for good, and from then on no call invokes the transform.
EventualRepair ==
    Rand => <>[](/\ AllSlotsLoad(ChairObj)
                 /\ pc[1] \in {"idle", "rand_load", "done"}
                 /\ pc[1] = "done" => Invocations(1) = 0)

====
